---- MODULE Spec2Model ----
(***************************************************************************)
(* Best-first search (graph search, tree search, recursive best-first      *)
(* search) of bestfirstsearch.hpp, as a state machine.                     *)
(*                                                                         *)
(* A node is a record [state, parent, action, path_cost]; parent and       *)
(* action are sequences of length 0 (the root: no parent, default action)  *)
(* or 1.  A problem is a record [states, initial, goal, edges, h]: an edge *)
(* [from, to, cost] is one action available in state `from`.               *)
(***************************************************************************)
EXTENDS Integers, Sequences, FiniteSets, TLC

VARIABLES
    problem,    \* PROBLEM: [states, initial, goal, edges, h]
    alg,        \* which of the three search functions was called
    pc,         \* position in the called function
    frontier,   \* graph search: queue_set [heap, map]
    closed,     \* graph search: Set<State> closed
    S,          \* the node popped in the current loop iteration (<<>> if none)
    pending,    \* actions of S the for_each has not visited yet
    path,       \* the output sink: states written by unravel, in order
    ret,        \* the value returned (<<>> while running or after a throw)
    hc,         \* the last call of detail::handle_child: its arguments and result
    expansions, \* graph and tree search: the states expanded so far, in order
    queue,      \* tree search: the priority queue of nodes
    stack,      \* RBFS: the frames of the active recursive calls, outermost first
    rv          \* RBFS: the SearchResult just returned by a call (<<>> if none)

vars == <<problem, alg, pc, frontier, closed, S, pending, path, ret, hc,
          expansions, queue, stack, rv>>

graphVars == <<frontier, closed, S, pending, path, hc>>
rbfsVars == <<stack, rv>>

----------------------------------------------------------------------------
(* Bounds of the model *)

MaxCost == 2
MaxEdges == 3
MaxDagEdges == 4

(* std::numeric_limits<PathCost>::max() for a 32-bit PathCost *)
RBFS_INF == 2147483647

Costs == 0..MaxCost

(* the problems a search is called with: every graph of at most MaxEdges
   actions over three states, and every acyclic graph of at most MaxDagEdges
   actions over four states (actions lead from a state to a later one; the
   initial state is no goal state, a case the three-state problems cover) *)
StateSet == {"A", "B", "C"}
DagStateSet == {"A", "B", "C", "D"}
Ord == [s \in DagStateSet |-> CASE s = "A" -> 1 [] s = "B" -> 2 [] s = "C" -> 3 [] s = "D" -> 4]

EdgeUniverse == [from : StateSet, to : StateSet, cost : Costs]
DagEdgeUniverse == {e \in [from : DagStateSet, to : DagStateSet, cost : Costs] : Ord[e.from] < Ord[e.to]}

RECURSIVE SubsetsUpTo(_, _)
SubsetsUpTo(U, k) ==
    IF k = 0 THEN {{}}
    ELSE LET smaller == SubsetsUpTo(U, k - 1)
         IN  smaller \cup {s \cup {e} : s \in smaller, e \in U}

(* step costs below zero, for the searches whose end does not depend on
   the costs *)
MaxNegCost == 1
AnyCosts == (0 - MaxNegCost)..MaxCost
AnyCostEdgeUniverse == [from : StateSet, to : StateSet, cost : AnyCosts]

ZeroH(states) == [s \in states |-> 0]

(* heuristic values range over 0..MaxH *)
MaxH == 1

(* the least cost of a path of at most k actions from s to a goal state of
   problem p, RBFS_INF if there is none *)
RECURSIVE CostToGoal(_, _, _)
CostToGoal(p, s, k) ==
    IF s \in p.goal THEN 0
    ELSE IF k = 0 THEN RBFS_INF
    ELSE LET ds == {LET d == CostToGoal(p, e.to, k - 1)
                    IN  IF d = RBFS_INF THEN RBFS_INF ELSE e.cost + d
                    : e \in {x \in p.edges : x.from = s}} \cup {RBFS_INF}
         IN  CHOOSE x \in ds : \A y \in ds : x <= y

(* with non-negative step costs a cheapest path never repeats a state *)
HStar(p) == [s \in p.states |-> CostToGoal(p, s, Cardinality(p.states) - 1)]

(* h never overestimates the remaining cost to a goal *)
AdmissibleHs(p) ==
    UNION {{h \in [p.states -> 0..MaxH] : \A s \in p.states : h[s] <= hstar[s]}
           : hstar \in {HStar(p)}}

(* h(goal) = 0 and h(s) <= step_cost(s, a, t) + h(t) for every action *)
Consistent(p) ==
    /\ \A s \in p.goal : p.h[s] = 0
    /\ \A e \in p.edges : p.h[e.from] <= e.cost + p.h[e.to]

GeneralProblems ==
    [states : {StateSet}, initial : {"A"}, goal : SUBSET StateSet,
     edges : SubsetsUpTo(EdgeUniverse, MaxEdges), h : {ZeroH(StateSet)}]

AnyCostProblems ==
    [states : {StateSet}, initial : {"A"}, goal : SUBSET StateSet,
     edges : SubsetsUpTo(AnyCostEdgeUniverse, MaxEdges), h : {ZeroH(StateSet)}]

DagProblems ==
    [states : {DagStateSet}, initial : {"A"}, goal : SUBSET (DagStateSet \ {"A"}),
     edges : SubsetsUpTo(DagEdgeUniverse, MaxDagEdges), h : {ZeroH(DagStateSet)}]

----------------------------------------------------------------------------
(* The Problem interface *)

goal_test(s) == s \in problem.goal

actions(s) == {e \in problem.edges : e.from = s}

result(s, a) == a.to

step_cost(s, a, t) == a.cost

create(s, parent, action, cost) ==
    [state |-> s, parent |-> parent, action |-> action, path_cost |-> cost]

child(parent, a, successor) ==
    create(successor, <<parent>>, <<a>>,
           parent.path_cost + step_cost(parent.state, a, successor))

(* Comparator<Traits>: the evaluation value the frontier is ordered by *)
f(node) == node.path_cost + problem.h[node.state]

----------------------------------------------------------------------------
(* jsearch::queue_set: a priority queue with a state-keyed lookup table *)

EmptyQS == [heap |-> {}, map |-> <<>>]

QS_empty(q) == q.heap = {}

QS_size(q) == Cardinality(q.heap)

QS_contains(q, s) == s \in DOMAIN q.map

QS_push(q, node) ==
    [heap |-> q.heap \cup {node},
     map  |-> [s \in (DOMAIN q.map) \cup {node.state} |->
                  IF s = node.state THEN node ELSE q.map[s]]]

QS_increase(q, dup, node) ==
    [heap |-> (q.heap \ {dup}) \cup {node},
     map  |-> [s \in (DOMAIN q.map) \cup {node.state} |->
                  IF s = node.state THEN node ELSE q.map[s]]]

(* the entries top() may return: the best ones under the comparator *)
QS_tops(q) == {n \in q.heap : \A m \in q.heap : f(n) <= f(m)}

QS_pop(q, top) ==
    [heap |-> q.heap \ {top},
     map  |-> [s \in (DOMAIN q.map) \ {top.state} |-> q.map[s]]]

----------------------------------------------------------------------------
(* detail::handle_child *)

(* variant: a duplicate on the frontier is never replaced *)
handle_child_keep(fr, CHILD) ==
    IF QS_contains(fr, CHILD.state)
    THEN [frontier |-> fr, result |-> <<>>]
    ELSE [frontier |-> QS_push(fr, CHILD), result |-> <<CHILD>>]

(* variant: the child is pushed without looking for a duplicate *)
handle_child_push(fr, CHILD) ==
    [frontier |-> QS_push(fr, CHILD), result |-> <<CHILD>>]

(* variant: <= where the code has < *)
handle_child_le(fr, CHILD) ==
    IF QS_contains(fr, CHILD.state)
    THEN LET DUPLICATE == fr.map[CHILD.state]
         IN  IF CHILD.path_cost <= DUPLICATE.path_cost
             THEN [frontier |-> QS_increase(fr, DUPLICATE, CHILD),
                   result   |-> <<DUPLICATE>>]
             ELSE [frontier |-> fr, result |-> <<>>]
    ELSE [frontier |-> QS_push(fr, CHILD), result |-> <<CHILD>>]

(* variant: result is not set when the child is pushed *)
handle_child_noresult(fr, CHILD) ==
    IF QS_contains(fr, CHILD.state)
    THEN LET DUPLICATE == fr.map[CHILD.state]
         IN  IF CHILD.path_cost < DUPLICATE.path_cost
             THEN [frontier |-> QS_increase(fr, DUPLICATE, CHILD),
                   result   |-> <<DUPLICATE>>]
             ELSE [frontier |-> fr, result |-> <<>>]
    ELSE [frontier |-> QS_push(fr, CHILD), result |-> <<>>]

handle_child(fr, CHILD) ==
    IF QS_contains(fr, CHILD.state)
    THEN LET DUPLICATE == fr.map[CHILD.state]
         IN  IF CHILD.path_cost < DUPLICATE.path_cost
             THEN [frontier |-> QS_increase(fr, DUPLICATE, CHILD),
                   result   |-> <<DUPLICATE>>]
             ELSE [frontier |-> fr, result |-> <<>>]
    ELSE [frontier |-> QS_push(fr, CHILD), result |-> <<CHILD>>]

----------------------------------------------------------------------------
(* Graph search *)

(* variant: the root is created with a non-zero path cost *)
RootNode_cost1 == create(problem.initial, <<>>, <<>>, 1)

RootNode == create(problem.initial, <<>>, <<>>, 0)

(* variant: the state is written only for a node that has a parent *)
RECURSIVE unravel_noroot(_, _)
unravel_noroot(out, node) ==
    IF node.parent # <<>>
    THEN unravel_noroot(Append(out, node.state), node.parent[1])
    ELSE out

RECURSIVE unravel(_, _)
unravel(out, node) ==
    IF node.parent # <<>>
    THEN unravel(Append(out, node.state), node.parent[1])
    ELSE Append(out, node.state)

NoCall == [child |-> <<>>, before |-> EmptyQS, after |-> EmptyQS, result |-> <<>>]

GraphStart ==
    /\ alg = "graph"
    /\ pc = "start"
    /\ frontier' = QS_push(EmptyQS, RootNode)
    /\ closed' = {}
    /\ pc' = "loop"
    /\ UNCHANGED <<problem, alg, S, pending, path, ret, hc, expansions, queue, stack, rv>>

GraphGoal ==
    /\ alg = "graph"
    /\ pc = "loop"
    /\ ~QS_empty(frontier)
    /\ \E top \in QS_tops(frontier) :
         /\ goal_test(top.state)
         /\ frontier' = QS_pop(frontier, top)
         /\ S' = <<top>>
         /\ path' = unravel(path, top)
         /\ ret' = <<top.path_cost>>
         /\ pc' = "done"
    /\ UNCHANGED <<problem, alg, closed, pending, hc, expansions, queue, stack, rv>>

(* variant: every popped state is written to the sink *)
GraphExpand_writes ==
    /\ alg = "graph"
    /\ pc = "loop"
    /\ ~QS_empty(frontier)
    /\ \E top \in QS_tops(frontier) :
         /\ ~goal_test(top.state)
         /\ frontier' = QS_pop(frontier, top)
         /\ S' = <<top>>
         /\ closed' = closed \cup {top.state}
         /\ expansions' = Append(expansions, top.state)
         /\ path' = Append(path, top.state)
         /\ pending' = actions(top.state)
         /\ pc' = IF actions(top.state) = {} THEN "loop" ELSE "expand"
    /\ UNCHANGED <<problem, alg, ret, hc, queue, stack, rv>>

(* variant: the popped state is not inserted into the closed set *)
GraphExpand_noinsert ==
    /\ alg = "graph"
    /\ pc = "loop"
    /\ ~QS_empty(frontier)
    /\ \E top \in QS_tops(frontier) :
         /\ ~goal_test(top.state)
         /\ frontier' = QS_pop(frontier, top)
         /\ S' = <<top>>
         /\ closed' = closed
         /\ expansions' = Append(expansions, top.state)
         /\ pending' = actions(top.state)
         /\ pc' = IF actions(top.state) = {} THEN "loop" ELSE "expand"
    /\ UNCHANGED <<problem, alg, path, ret, hc, queue, stack, rv>>

GraphExpand ==
    /\ alg = "graph"
    /\ pc = "loop"
    /\ ~QS_empty(frontier)
    /\ \E top \in QS_tops(frontier) :
         /\ ~goal_test(top.state)
         /\ frontier' = QS_pop(frontier, top)
         /\ S' = <<top>>
         /\ closed' = closed \cup {top.state}
         /\ expansions' = Append(expansions, top.state)
         /\ pending' = actions(top.state)
         /\ pc' = IF actions(top.state) = {} THEN "loop" ELSE "expand"
    /\ UNCHANGED <<problem, alg, path, ret, hc, queue, stack, rv>>

(* variant: the closed-set test of the lambda is missing *)
GraphChild_noclosed ==
    /\ alg = "graph"
    /\ pc = "expand"
    /\ \E act \in pending :
         LET SUCCESSOR == result(S[1].state, act)
             CHILD == child(S[1], act, SUCCESSOR)
             r == handle_child(frontier, CHILD)
         IN  /\ frontier' = r.frontier
             /\ hc' = [child |-> <<CHILD>>, before |-> frontier,
                       after |-> r.frontier, result |-> r.result]
             /\ pending' = pending \ {act}
             /\ pc' = IF pending \ {act} = {} THEN "loop" ELSE "expand"
    /\ UNCHANGED <<problem, alg, closed, S, path, ret, expansions, queue, stack, rv>>

(* variant: the closed-set test of the lambda is inverted *)
GraphChild_inverted ==
    /\ alg = "graph"
    /\ pc = "expand"
    /\ \E act \in pending :
         LET SUCCESSOR == result(S[1].state, act)
             CHILD == child(S[1], act, SUCCESSOR)
             r == handle_child(frontier, CHILD)
         IN  /\ IF SUCCESSOR \in closed
                THEN /\ frontier' = r.frontier
                     /\ hc' = [child |-> <<CHILD>>, before |-> frontier,
                               after |-> r.frontier, result |-> r.result]
                ELSE UNCHANGED <<frontier, hc>>
             /\ pending' = pending \ {act}
             /\ pc' = IF pending \ {act} = {} THEN "loop" ELSE "expand"
    /\ UNCHANGED <<problem, alg, closed, S, path, ret, expansions, queue, stack, rv>>

GraphChild ==
    /\ alg = "graph"
    /\ pc = "expand"
    /\ \E act \in pending :
         LET SUCCESSOR == result(S[1].state, act)
             CHILD == child(S[1], act, SUCCESSOR)
             r == handle_child(frontier, CHILD)
         IN  /\ IF SUCCESSOR \notin closed
                THEN /\ frontier' = r.frontier
                     /\ hc' = [child |-> <<CHILD>>, before |-> frontier,
                               after |-> r.frontier, result |-> r.result]
                ELSE UNCHANGED <<frontier, hc>>
             /\ pending' = pending \ {act}
             /\ pc' = IF pending \ {act} = {} THEN "loop" ELSE "expand"
    /\ UNCHANGED <<problem, alg, closed, S, path, ret, expansions, queue, stack, rv>>

(* the pop of the loop under an arbitrary Comparator: any frontier node may
   be the top *)
GraphGoalAny ==
    /\ alg = "graph"
    /\ pc = "loop"
    /\ ~QS_empty(frontier)
    /\ \E top \in frontier.heap :
         /\ goal_test(top.state)
         /\ frontier' = QS_pop(frontier, top)
         /\ S' = <<top>>
         /\ path' = unravel(path, top)
         /\ ret' = <<top.path_cost>>
         /\ pc' = "done"
    /\ UNCHANGED <<problem, alg, closed, pending, hc, expansions, queue, stack, rv>>

GraphExpandAny ==
    /\ alg = "graph"
    /\ pc = "loop"
    /\ ~QS_empty(frontier)
    /\ \E top \in frontier.heap :
         /\ ~goal_test(top.state)
         /\ frontier' = QS_pop(frontier, top)
         /\ S' = <<top>>
         /\ closed' = closed \cup {top.state}
         /\ expansions' = Append(expansions, top.state)
         /\ pending' = actions(top.state)
         /\ pc' = IF actions(top.state) = {} THEN "loop" ELSE "expand"
    /\ UNCHANGED <<problem, alg, path, ret, hc, queue, stack, rv>>

GraphFail ==
    /\ alg = "graph"
    /\ pc = "loop"
    /\ QS_empty(frontier)
    /\ pc' = "goal_not_found"
    /\ UNCHANGED <<problem, alg, frontier, closed, S, pending, path, ret, hc, expansions, queue, stack, rv>>

----------------------------------------------------------------------------
(* Tree search *)

(* tree search has no closed set and no duplicate test: it runs as long as
   the problem has paths, so it is started only on problems on which it
   comes to an end (see InitTree) *)
PQ_tops(q) == {n \in q : \A m \in q : f(n) <= f(m)}

TreeStart ==
    /\ alg = "tree"
    /\ pc = "start"
    /\ queue' = {create(problem.initial, <<>>, <<>>, 0)}
    /\ pc' = "loop"
    /\ UNCHANGED <<problem, alg, ret, expansions, graphVars, rbfsVars>>

TreeGoal ==
    /\ alg = "tree"
    /\ pc = "loop"
    /\ queue # {}
    /\ \E top \in PQ_tops(queue) :
         /\ goal_test(top.state)
         /\ queue' = queue \ {top}
         /\ ret' = <<top>>
         /\ pc' = "done"
    /\ UNCHANGED <<problem, alg, expansions, graphVars, rbfsVars>>

(* variant: the children of the popped node are not enqueued *)
TreeExpand_nopush ==
    /\ alg = "tree"
    /\ pc = "loop"
    /\ queue # {}
    /\ \E top \in PQ_tops(queue) :
         /\ ~goal_test(top.state)
         /\ queue' = queue \ {top}
         /\ expansions' = Append(expansions, top.state)
    /\ UNCHANGED <<problem, alg, pc, ret, graphVars, rbfsVars>>

(* variant: a child whose state is already on the frontier is dropped *)
TreeExpand_dedup ==
    /\ alg = "tree"
    /\ pc = "loop"
    /\ queue # {}
    /\ \E top \in PQ_tops(queue) :
         /\ ~goal_test(top.state)
         /\ queue' = (queue \ {top}) \cup
                {child(top, a, result(top.state, a)) : a \in {b \in actions(top.state) :
                        \A n \in queue : n.state # result(top.state, b)}}
         /\ expansions' = Append(expansions, top.state)
    /\ UNCHANGED <<problem, alg, pc, ret, graphVars, rbfsVars>>

TreeExpand ==
    /\ alg = "tree"
    /\ pc = "loop"
    /\ queue # {}
    /\ \E top \in PQ_tops(queue) :
         /\ ~goal_test(top.state)
         /\ queue' = (queue \ {top}) \cup
                {child(top, a, result(top.state, a)) : a \in actions(top.state)}
         /\ expansions' = Append(expansions, top.state)
    /\ UNCHANGED <<problem, alg, pc, ret, graphVars, rbfsVars>>

TreeFail ==
    /\ alg = "tree"
    /\ pc = "loop"
    /\ queue = {}
    /\ pc' = "goal_not_found"
    /\ UNCHANGED <<problem, alg, ret, expansions, queue, graphVars, rbfsVars>>

----------------------------------------------------------------------------
(* Recursive best-first search.  A frame is one call of
   recursive::recursive_best_first_search: its arguments NODE, F_N, B, its
   priority queue of NodeCost [node, cost], the child it is recursing into
   and its position: "entry", "loop" (at the while test) or "wait". *)

Frame(NODE, F_N, B) ==
    [NODE |-> NODE, F_N |-> F_N, B |-> B, children |-> {}, best |-> <<>>, at |-> "entry"]

Top == stack[Len(stack)]

Caller == SubSeq(stack, 1, Len(stack) - 1)

SearchResult(node, cost) == [first |-> node, second |-> cost]

MinOf(X) == CHOOSE x \in X : \A y \in X : x <= y

MaxOf(X) == CHOOSE x \in X : \A y \in X : x >= y

AtEntry ==
    /\ alg = "rbfs"
    /\ pc = "running"
    /\ stack # <<>>
    /\ Top.at = "entry"

AtLoop ==
    /\ alg = "rbfs"
    /\ pc = "running"
    /\ stack # <<>>
    /\ Top.at = "loop"

AtWait ==
    /\ alg = "rbfs"
    /\ pc = "running"
    /\ stack # <<>>
    /\ Top.at = "wait"
    /\ rv # <<>>

RBFSStart ==
    /\ alg = "rbfs"
    /\ pc = "start"
    /\ LET initial == create(problem.initial, <<>>, <<>>, 0)
       IN  stack' = <<Frame(initial, f(initial), RBFS_INF)>>
    /\ pc' = "running"
    /\ UNCHANGED <<problem, alg, ret, expansions, queue, rv, graphVars>>

(* the returns before the children are built *)
ReturnsEarly(NODE, B) ==
    \/ f(NODE) > B
    \/ goal_test(NODE.state)
    \/ actions(NODE.state) = {}

(* variant: the dead end returns f(N) *)
EarlyResult_fN(NODE, B) ==
    IF f(NODE) > B THEN SearchResult(<<>>, f(NODE))
    ELSE IF goal_test(NODE.state) THEN SearchResult(<<NODE>>, 0)
    ELSE SearchResult(<<>>, f(NODE))

(* IF f(N)>B, return f(N); IF N is a goal, EXIT algorithm;
   IF N has no children, RETURN infinity *)
EarlyResult(NODE, B) ==
    IF f(NODE) > B THEN SearchResult(<<>>, f(NODE))
    ELSE IF goal_test(NODE.state) THEN SearchResult(<<NODE>>, 0)
    ELSE SearchResult(<<>>, RBFS_INF)

RBFSEarlyReturn ==
    /\ AtEntry
    /\ ReturnsEarly(Top.NODE, Top.B)
    /\ rv' = EarlyResult(Top.NODE, Top.B)
    /\ stack' = Caller
    /\ UNCHANGED <<problem, alg, pc, ret, expansions, queue, graphVars>>

(* variant: every child starts with its own f-value *)
RBFSChildren_plain(NODE, F_N) ==
    {LET CHILD == child(NODE, a, result(NODE.state, a))
     IN  [node |-> CHILD, cost |-> f(CHILD)]
     : a \in actions(NODE.state)}

(* FOR each child Ni of N: F[i] := MAX(F(N), f(Ni)) if f(N) < F(N), else f(Ni) *)
RBFSChildren(NODE, F_N) ==
    {LET CHILD == child(NODE, a, result(NODE.state, a))
         f_CHILD == f(CHILD)
     IN  [node |-> CHILD,
          cost |-> IF f(NODE) < F_N THEN MaxOf({F_N, f_CHILD}) ELSE f_CHILD]
     : a \in actions(NODE.state)}

RBFSExpand ==
    /\ AtEntry
    /\ ~ReturnsEarly(Top.NODE, Top.B)
    /\ stack' = [stack EXCEPT ![Len(stack)] =
                    [@ EXCEPT !.children = RBFSChildren(Top.NODE, Top.F_N),
                              !.at = "loop"]]
    /\ UNCHANGED <<problem, alg, pc, ret, expansions, queue, rv, graphVars>>

TopCost(children) == MinOf({c.cost : c \in children})

(* variant: the loop runs only while the best cost is below the bound *)
WhileTest_lt(children, B) ==
    TopCost(children) < B /\ TopCost(children) < RBFS_INF

(* while(children.top().cost() <= B && children.top().cost() < INF) *)
WhileTest(children, B) ==
    TopCost(children) <= B /\ TopCost(children) < RBFS_INF

(* variant: the recursive call gets the caller's bound B *)
RBFSRecurse_sameBound ==
    /\ AtLoop
    /\ WhileTest(Top.children, Top.B)
    /\ \E BEST \in {c \in Top.children : c.cost = TopCost(Top.children)} :
         stack' = Append([stack EXCEPT ![Len(stack)] =
                             [@ EXCEPT !.best = <<BEST>>, !.at = "wait"]],
                         Frame(BEST.node, BEST.cost, Top.B))
    /\ UNCHANGED <<problem, alg, pc, ret, expansions, queue, rv, graphVars>>

(* variant: the recursive call gets the second-best cost as its bound *)
RBFSRecurse_secondOnly ==
    /\ AtLoop
    /\ WhileTest(Top.children, Top.B)
    /\ \E BEST \in {c \in Top.children : c.cost = TopCost(Top.children)} :
         LET rest == Top.children \ {BEST}
             SECOND_BEST_COST == IF rest = {} THEN RBFS_INF ELSE TopCost(rest)
         IN  stack' = Append([stack EXCEPT ![Len(stack)] =
                                 [@ EXCEPT !.best = <<BEST>>, !.at = "wait"]],
                             Frame(BEST.node, BEST.cost, SECOND_BEST_COST))
    /\ UNCHANGED <<problem, alg, pc, ret, expansions, queue, rv, graphVars>>

(* WHILE (F[1] <= B and F[1] < infinity): F[1] := RBFS(N1, F[1], MIN(B, F[2])) *)
RBFSRecurse ==
    /\ AtLoop
    /\ WhileTest(Top.children, Top.B)
    /\ \E BEST \in {c \in Top.children : c.cost = TopCost(Top.children)} :
         LET rest == Top.children \ {BEST}
             SECOND_BEST_COST == IF rest = {} THEN RBFS_INF ELSE TopCost(rest)
         IN  stack' = Append([stack EXCEPT ![Len(stack)] =
                                 [@ EXCEPT !.best = <<BEST>>, !.at = "wait"]],
                             Frame(BEST.node, BEST.cost,
                                   MinOf({Top.B, SECOND_BEST_COST})))
    /\ UNCHANGED <<problem, alg, pc, ret, expansions, queue, rv, graphVars>>

(* return F[1] *)
RBFSExit ==
    /\ AtLoop
    /\ ~WhileTest(Top.children, Top.B)
    /\ rv' = SearchResult(<<>>, TopCost(Top.children))
    /\ stack' = Caller
    /\ UNCHANGED <<problem, alg, pc, ret, expansions, queue, graphVars>>

(* variant: the returned cost is not stored *)
RBFSUpdate_keep ==
    /\ AtWait
    /\ rv.first = <<>>
    /\ stack' = [stack EXCEPT ![Len(stack)] =
                    [@ EXCEPT !.best = <<>>, !.at = "loop"]]
    /\ rv' = <<>>
    /\ UNCHANGED <<problem, alg, pc, ret, expansions, queue, graphVars>>

(* the recursive call returned no goal: update_cost and update the heap *)
RBFSUpdate ==
    /\ AtWait
    /\ rv.first = <<>>
    /\ stack' = [stack EXCEPT ![Len(stack)] =
                    [@ EXCEPT !.children = (@ \ {Top.best[1]}) \cup
                                  {[Top.best[1] EXCEPT !.cost = rv.second]},
                              !.best = <<>>,
                              !.at = "loop"]]
    /\ rv' = <<>>
    /\ UNCHANGED <<problem, alg, pc, ret, expansions, queue, graphVars>>

(* the recursive call returned a goal: return RESULT *)
RBFSUnwind ==
    /\ AtWait
    /\ rv.first # <<>>
    /\ stack' = Caller
    /\ UNCHANGED <<problem, alg, pc, ret, expansions, queue, rv, graphVars>>

RBFSThrow ==
    /\ alg = "rbfs"
    /\ pc = "running"
    /\ stack = <<>>
    /\ rv.first = <<>>
    /\ pc' = "goal_not_found"
    /\ UNCHANGED <<problem, alg, ret, expansions, queue, graphVars, rbfsVars>>

RBFSReturn ==
    /\ alg = "rbfs"
    /\ pc = "running"
    /\ stack = <<>>
    /\ rv.first # <<>>
    /\ ret' = rv.first
    /\ pc' = "done"
    /\ UNCHANGED <<problem, alg, expansions, queue, graphVars, rbfsVars>>

----------------------------------------------------------------------------
(* the states reachable from X through the action/result relation *)
RECURSIVE ReachFrom(_)
ReachFrom(X) ==
    LET Y == X \cup {e.to : e \in {d \in problem.edges : d.from \in X}}
    IN  IF Y = X THEN X ELSE ReachFrom(Y)

Reachable == ReachFrom({problem.initial})

GoalReachable == Reachable \cap problem.goal # {}

Idle ==
    /\ pc = "start"
    /\ frontier = EmptyQS
    /\ closed = {}
    /\ S = <<>>
    /\ pending = {}
    /\ path = <<>>
    /\ ret = <<>>
    /\ hc = NoCall
    /\ expansions = <<>>
    /\ queue = {}
    /\ stack = <<>>
    /\ rv = <<>>

Init ==
    /\ problem \in GeneralProblems
    /\ alg = "graph"
    /\ Idle

Next == GraphStart \/ GraphGoal \/ GraphExpand \/ GraphChild \/ GraphFail

Spec == Init /\ [][Next]_vars

(* graph search ordered by path cost plus an admissible heuristic *)
InitAStar ==
    /\ \E p \in GeneralProblems \cup DagProblems :
         \E h \in AdmissibleHs(p) : problem = [p EXCEPT !.h = h]
    /\ alg = "graph"
    /\ Idle

SpecAStar == InitAStar /\ [][Next]_vars

(* graph search under any frontier ordering and any step costs *)
InitAnyOrder ==
    /\ problem \in AnyCostProblems
    /\ alg = "graph"
    /\ Idle

NextAnyOrder ==
    GraphStart \/ GraphGoalAny \/ GraphExpandAny \/ GraphChild \/ GraphFail

(* the search is one thread that always takes its next step *)
SpecAnyOrder == InitAnyOrder /\ [][NextAnyOrder]_vars /\ WF_vars(NextAnyOrder)

NextTree == TreeStart \/ TreeGoal \/ TreeExpand \/ TreeFail

(* the problem graph has no cycle *)
Acyclic ==
    \A s \in problem.states :
        LET succ == {e.to : e \in {d \in problem.edges : d.from = s}}
        IN  succ = {} \/ s \notin ReachFrom(succ)

PositiveCosts == \A e \in problem.edges : e.cost >= 1

(* tree search on the problems on which it comes to an end: the acyclic
   ones, and the ones with strictly positive step costs and a reachable
   goal *)
InitTree ==
    /\ problem \in GeneralProblems
    /\ Acyclic \/ (PositiveCosts /\ GoalReachable)
    /\ alg = "tree"
    /\ Idle

(* the search is one thread that always takes its next step *)
SpecTree == InitTree /\ [][NextTree]_vars /\ WF_vars(NextTree)

NextRBFS ==
    \/ RBFSStart \/ RBFSEarlyReturn \/ RBFSExpand
    \/ RBFSRecurse \/ RBFSExit \/ RBFSUpdate \/ RBFSUnwind
    \/ RBFSThrow \/ RBFSReturn

(* RBFS on the acyclic problems, under every admissible heuristic *)
InitRBFS ==
    /\ \E p \in DagProblems :
         \E h \in AdmissibleHs(p) : problem = [p EXCEPT !.h = h]
    /\ alg = "rbfs"
    /\ Idle

SpecRBFS == InitRBFS /\ [][NextRBFS]_vars

(* each of the three searches on the acyclic problems, zero heuristic *)
InitAll ==
    /\ problem \in DagProblems
    /\ alg \in {"graph", "tree", "rbfs"}
    /\ Idle

NextAll == Next \/ NextTree \/ NextRBFS

SpecAll == InitAll /\ [][NextAll]_vars
----------------------------------------------------------------------------
(* Reference definitions the properties are stated with *)

MinCostFrom(s) == HStar(problem)[s]

MinCost == MinCostFrom(problem.initial)

RECURSIVE Depth(_)
Depth(n) == IF n.parent = <<>> THEN 0 ELSE 1 + Depth(n.parent[1])

RECURSIVE Ancestor(_, _)
Ancestor(n, i) == IF i = 0 THEN n ELSE Ancestor(n.parent[1], i - 1)

(* a node built by following actions of the problem from the initial state,
   its path_cost the sum of their step costs *)
RECURSIVE WellFormed(_)
WellFormed(n) ==
    IF n.parent = <<>>
    THEN n.state = problem.initial /\ n.path_cost = 0 /\ n.action = <<>>
    ELSE /\ Len(n.action) = 1
         /\ n.action[1] \in problem.edges
         /\ n.action[1].from = n.parent[1].state
         /\ n.action[1].to = n.state
         /\ n.path_cost = n.parent[1].path_cost + n.action[1].cost
         /\ WellFormed(n.parent[1])

RECURSIVE ChainCost(_)
ChainCost(n) ==
    IF n.parent = <<>> THEN 0 ELSE n.action[1].cost + ChainCost(n.parent[1])

Returned == alg = "graph" /\ pc = "done"

Failed == pc = "goal_not_found"

----------------------------------------------------------------------------
(* C1: graph search ordered by lowest path cost (zero heuristic) returns the
   minimal path cost from the initial state to a goal state, whatever the
   order of the actions and the tie-break among equal-cost entries. *)
C1_UniformCostOptimal ==
    (Returned /\ problem.h = ZeroH(problem.states)) => ret = <<MinCost>>

(* a run that returned the cost of the two-step route although a dearer
   one-step route to the same goal exists *)
C1_Witness ==
    /\ Returned
    /\ problem.h = ZeroH(problem.states)
    /\ Len(path) = 3
    /\ \E e \in problem.edges :
         /\ e.from = problem.initial
         /\ e.to = path[1]
         /\ e.cost > ret[1]

(* C2 as stated: with an admissible heuristic the returned path cost is the
   minimal path cost. *)
C2_AdmissibleOptimal ==
    Returned => ret = <<MinCost>>

(* C2, amended: with an admissible and consistent heuristic the returned path
   cost is the minimal path cost. *)
C2_ConsistentOptimal ==
    (Returned /\ Consistent(problem)) => ret = <<MinCost>>

(* a run under a consistent heuristic that is not zero on the path, in which
   a frontier entry was replaced by a cheaper node *)
C2_Witness ==
    /\ Returned
    /\ Consistent(problem)
    /\ \E i \in 1..Len(path) : problem.h[path[i]] > 0
    /\ hc.result # <<>>
    /\ hc.result # hc.child
    /\ Len(path) >= 3

(* C3: RBFS, entered with F = f(root) and bound = +infinity, on an acyclic
   graph with non-negative step costs and an admissible, consistent heuristic
   in which a goal is reachable, returns a goal node whose path_cost is the
   minimal path cost from the initial state to a goal. *)
C3_RBFSOptimal ==
    (alg = "rbfs" /\ Consistent(problem) /\ GoalReachable) =>
        /\ ~Failed
        /\ pc = "done" =>
              /\ goal_test(ret[1].state)
              /\ WellFormed(ret[1])
              /\ ret[1].path_cost = MinCost
        /\ stack # <<>> =>
              /\ stack[1].F_N = problem.h[problem.initial]
              /\ stack[1].B = RBFS_INF

(* RBFS returned a goal node two actions deep although a dearer single action
   leads from the initial state to the same goal state *)
C3_Witness ==
    /\ alg = "rbfs"
    /\ pc = "done"
    /\ Consistent(problem)
    /\ Depth(ret[1]) = 2
    /\ \E e \in problem.edges :
         /\ e.from = problem.initial
         /\ e.to = ret[1].state
         /\ e.cost > ret[1].path_cost

NoActionsNoGoal ==
    /\ ~goal_test(problem.initial)
    /\ actions(problem.initial) = {}

(* C5: when the initial state is not a goal and has no actions, each of the
   three searches ends by failing with GoalNotFound: graph and tree search
   after popping only the root and finding the frontier empty, RBFS because
   the top recursive call returns (no goal, +infinity). *)
C5_NoActionsFails ==
    NoActionsNoGoal =>
        /\ pc # "done"
        /\ ~Failed => ENABLED NextAll
        /\ (Failed /\ alg = "graph") =>
              expansions = <<problem.initial>> /\ QS_empty(frontier)
        /\ (Failed /\ alg = "tree") =>
              expansions = <<problem.initial>> /\ queue = {}
        /\ (Failed /\ alg = "rbfs") =>
              stack = <<>> /\ rv = SearchResult(<<>>, RBFS_INF)
        /\ Len(expansions) <= 1
        /\ Len(stack) <= 1

C5_Witness == NoActionsNoGoal /\ Failed /\ alg = "rbfs" /\ problem.goal # {}

C5_WitnessGraph == NoActionsNoGoal /\ Failed /\ alg = "graph" /\ problem.edges # {}

C5_WitnessTree == NoActionsNoGoal /\ Failed /\ alg = "tree" /\ problem.edges # {}

(* C4: graph search fails with GoalNotFound if and only if no goal state is
   reachable from the initial state; it is raised exactly when the frontier
   is empty and no popped node passed the goal test. *)
C4_FailIffUnreachable ==
    /\ (alg = "graph" /\ Failed) =>
          /\ ~GoalReachable
          /\ QS_empty(frontier)
          /\ ret = <<>>
          /\ \A i \in 1..Len(expansions) : ~goal_test(expansions[i])
    /\ Returned => GoalReachable
    /\ (alg = "graph" /\ pc = "loop" /\ QS_empty(frontier)) => ~GoalReachable

(* a failed run that expanded more than the root *)
C4_Witness ==
    /\ alg = "graph"
    /\ Failed
    /\ Len(expansions) >= 2
    /\ problem.goal # {}

(* C6: on success the sink holds the states of the parent chain of the popped
   goal node in goal-to-root order: first a goal state, last the initial
   state, each next state the one the previous was reached from, depth + 1
   states in all. *)
C6_PathIsParentChain ==
    Returned =>
        /\ Len(path) = Depth(S[1]) + 1
        /\ \A i \in 1..Len(path) : path[i] = Ancestor(S[1], i - 1).state
        /\ goal_test(path[1])
        /\ path[Len(path)] = problem.initial
        /\ \A i \in 1..(Len(path) - 1) :
              \E e \in problem.edges : e.from = path[i + 1] /\ e.to = path[i]

C6_Witness == Returned /\ Len(path) = 3

(* the initial state is itself a goal: a single state is written *)
C6_WitnessRootGoal == Returned /\ path = <<problem.initial>>

(* C7: every node on the frontier has path_cost equal to the sum of the step
   costs along its parent chain (the root: no parent, path_cost 0), also after
   a replacement; the cost returned is the sum of the step costs along the
   emitted path. *)
C7_PathCostIsChainSum ==
    alg = "graph" =>
        /\ \A n \in frontier.heap : WellFormed(n) /\ n.path_cost = ChainCost(n)
        /\ \A s \in DOMAIN frontier.map :
              WellFormed(frontier.map[s]) /\ frontier.map[s].path_cost = ChainCost(frontier.map[s])
        /\ Returned => ret = <<ChainCost(S[1])>> /\ WellFormed(S[1])

(* a frontier entry was replaced by a cheaper node and later returned *)
C7_Witness ==
    /\ Returned
    /\ hc.result # <<>>
    /\ hc.result # hc.child
    /\ S[1] = hc.child[1]
    /\ ret[1] > 0

(* C8: the frontier holds at most one entry per state, and the lookup finds a
   state exactly when an entry for it is in the heap. *)
C8_FrontierConsistent ==
    alg = "graph" =>
        /\ \A n, m \in frontier.heap : n.state = m.state => n = m
        /\ DOMAIN frontier.map = {n.state : n \in frontier.heap}
        /\ \A s \in DOMAIN frontier.map :
              frontier.map[s] \in frontier.heap /\ frontier.map[s].state = s

(* push, increase and pop have all happened and an entry is live *)
C8_Witness ==
    /\ alg = "graph"
    /\ hc.result # <<>>
    /\ hc.result # hc.child
    /\ Len(expansions) >= 2
    /\ frontier.heap # {}

(* C9: each state is expanded at most once. *)
C9_ExpandedAtMostOnce ==
    alg = "graph" =>
        \A i, j \in 1..Len(expansions) : expansions[i] = expansions[j] => i = j

(* a cycle back to an expanded state was generated and two states expanded *)
C9_Witness ==
    /\ alg = "graph"
    /\ Len(expansions) >= 2
    /\ pc = "loop"
    /\ \E e \in problem.edges :
         /\ e.from = expansions[2]
         /\ e.to = expansions[1]
    /\ \E e, d \in problem.edges : e.to = d.to /\ e.from # d.from /\ e.cost # d.cost

(* C10: handle_child replaces a frontier entry only by a candidate of the
   same state with strictly smaller path_cost; afterwards the lookup of that
   state yields the candidate, the old node is the result, and the frontier
   size is unchanged. *)
C10_ReplaceOnlyCheaper ==
    (alg = "graph" /\ hc.child # <<>>) =>
        LET c == hc.child[1]
            s == c.state
        IN  (QS_contains(hc.before, s) /\ hc.after # hc.before) =>
                LET old == hc.before.map[s]
                IN  /\ old.state = s
                    /\ c.path_cost < old.path_cost
                    /\ QS_contains(hc.after, s)
                    /\ hc.after.map[s] = c
                    /\ hc.after.map[s].path_cost = c.path_cost
                    /\ c \in hc.after.heap
                    /\ old \notin hc.after.heap
                    /\ hc.after.heap \ {c} = hc.before.heap \ {old}
                    /\ hc.result = <<old>>
                    /\ QS_size(hc.after) = QS_size(hc.before)

C10_Witness ==
    /\ alg = "graph"
    /\ hc.child # <<>>
    /\ hc.result # <<>>
    /\ hc.result # hc.child
    /\ hc.after = frontier

----------------------------------------------------------------------------
(* Reference definitions for the recursive calls *)

(* a step in which the running call returns to its caller without a goal *)
ReturnsNoGoal ==
    /\ alg = "rbfs"
    /\ stack # <<>>
    /\ Len(stack') = Len(stack) - 1
    /\ rv' # <<>>
    /\ rv'.first = <<>>

(* the bound the frame fr passed to the call it is waiting for *)
CalleeBound(fr) ==
    LET rest == fr.children \ {fr.best[1]}
    IN  MinOf({fr.B} \cup {c.cost : c \in rest})

(* C11 as stated: every call that returns without a goal returns a cost
   strictly greater than the bound B it was given, the top-level call with
   bound +infinity and the dead-end returns included *)
C11_ReturnAboveBound ==
    [][ReturnsNoGoal => rv'.second > Top.B]_vars

(* C11 amended: a call that returns without a goal returns a cost strictly
   greater than its bound B when B is finite, and +infinity when B is
   +infinity *)
C11_ReturnAboveFiniteBound ==
    [][ReturnsNoGoal =>
          IF Top.B < RBFS_INF THEN rv'.second > Top.B
          ELSE rv'.second = RBFS_INF]_vars

C11_Witness ==
    /\ AtWait
    /\ rv.first = <<>>
    /\ CalleeBound(Top) < RBFS_INF
    /\ rv.second > CalleeBound(Top)
    /\ rv.second < RBFS_INF

(* C12: every call made from the while loop is on the child of least stored
   cost, with bound min(B, second-best stored cost or +infinity); that bound
   is never below the stored cost of the child entered and never above the
   caller's bound B *)
C12_BestChildBound ==
    alg = "rbfs" =>
      \A i \in 2..Len(stack) :
        LET caller == stack[i - 1]
            callee == stack[i]
        IN  /\ caller.at = "wait"
            /\ caller.best # <<>>
            /\ caller.best[1] \in caller.children
            /\ \A c \in caller.children : caller.best[1].cost <= c.cost
            /\ callee.NODE = caller.best[1].node
            /\ callee.F_N = caller.best[1].cost
            /\ callee.B = CalleeBound(caller)
            /\ callee.B >= callee.F_N
            /\ callee.B <= caller.B

C12_Witness ==
    /\ alg = "rbfs"
    /\ Len(stack) >= 3
    /\ stack[2].B < stack[1].B
    /\ stack[3].B = stack[2].B
    /\ Cardinality(stack[2].children) >= 2
    /\ stack[3].F_N < stack[3].B

(* the stored cost F of every active call is at least that of its caller *)
StoredCostsMonotone ==
    \A i \in 2..Len(stack) : stack[i].F_N >= stack[i - 1].F_N

(* f never decreases from a state to its successor *)
MonotoneF ==
    \A e \in problem.edges :
        problem.h[e.from] <= e.cost + problem.h[e.to]

(* C17 as stated: for any non-negative step costs and any cost function f,
   the stored cost F passed into a recursive call on a child is never less
   than the stored cost F_N passed into the enclosing call on its parent *)
C17_StoredCostNotBelowParent ==
    alg = "rbfs" => StoredCostsMonotone

(* C17 amended: the same, for a cost function f that never decreases from a
   node to its child *)
C17_MonotoneStoredCost ==
    (alg = "rbfs" /\ MonotoneF) => StoredCostsMonotone

C17_Witness ==
    /\ alg = "rbfs"
    /\ MonotoneF
    /\ Len(stack) >= 3
    /\ f(stack[2].NODE) < stack[2].F_N
    /\ f(stack[3].NODE) < stack[3].F_N
    /\ stack[3].F_N = stack[2].F_N

(* C18: when the call on the best child returns without a goal, that child's
   stored cost becomes the returned cost, which is not below the cost it
   replaces, and every sibling's entry stays as it was *)
C18_CostRevision ==
    [][(AtWait /\ rv.first = <<>> /\ stack' # stack) =>
          LET BEST == Top.best[1]
              after == stack'[Len(stack')].children
          IN  /\ Len(stack') = Len(stack)
              /\ Caller = SubSeq(stack', 1, Len(stack') - 1)
              /\ \A c \in Top.children : c # BEST => c \in after
              /\ {c.node : c \in after} = {c.node : c \in Top.children}
              /\ Cardinality(after) = Cardinality(Top.children)
              /\ \A c \in after : c.node = BEST.node =>
                    /\ c.cost = rv.second
                    /\ c.cost >= BEST.cost]_vars

C18_Witness ==
    /\ AtLoop
    /\ Cardinality(Top.children) >= 2
    /\ \E c \in Top.children :
         /\ c.cost > f(c.node)
         /\ c.cost > Top.F_N
         /\ c.cost < RBFS_INF
    /\ \E c \in Top.children : c.cost = f(c.node)

(* C14: graph search writes nothing to the sink and returns no cost before a
   goal node is popped; a run that ends in goal_not_found has written no
   state and returns no cost *)
C14_NoPartialResults ==
    (alg = "graph" /\ pc # "done") => (path = <<>> /\ ret = <<>>)

C14_Witness ==
    /\ alg = "graph"
    /\ Failed
    /\ Len(expansions) >= 2
    /\ hc.child # <<>>
    /\ path = <<>>
    /\ ret = <<>>

(* C16: a candidate whose state is on the frontier with a path cost not
   above the candidate's leaves the frontier as it was and the call reports
   null; a candidate whose state is not on the frontier adds exactly one
   entry, changes no other, and the call reports the candidate *)
C16_HandleChildFrame ==
    (alg = "graph" /\ hc.child # <<>>) =>
      LET CHILD == hc.child[1]
      IN  /\ (/\ QS_contains(hc.before, CHILD.state)
              /\ CHILD.path_cost >= hc.before.map[CHILD.state].path_cost)
                => (hc.after = hc.before /\ hc.result = <<>>)
          /\ ~QS_contains(hc.before, CHILD.state)
                => /\ CHILD \notin hc.before.heap
                   /\ hc.after.heap = hc.before.heap \cup {CHILD}
                   /\ DOMAIN hc.after.map = DOMAIN hc.before.map \cup {CHILD.state}
                   /\ \A s \in DOMAIN hc.before.map :
                         hc.after.map[s] = hc.before.map[s]
                   /\ hc.after.map[CHILD.state] = CHILD
                   /\ hc.result = <<CHILD>>

C16_Witness ==
    /\ alg = "graph"
    /\ hc.child # <<>>
    /\ QS_contains(hc.before, hc.child[1].state)
    /\ hc.child[1].path_cost > hc.before.map[hc.child[1].state].path_cost
    /\ hc.before.heap # {}
    /\ hc.after = hc.before

C16_WitnessPush ==
    /\ alg = "graph"
    /\ hc.child # <<>>
    /\ ~QS_contains(hc.before, hc.child[1].state)
    /\ hc.before.heap # {}
    /\ hc.result = hc.child

(* C19: the closed set only grows, holds exactly the states of the popped
   nodes that failed the goal test, and shares no state with the frontier *)
C19_ClosedSet ==
    /\ [](alg = "graph" =>
            /\ closed = {expansions[i] : i \in 1..Len(expansions)}
            /\ closed \cap {n.state : n \in frontier.heap} = {}
            /\ closed \cap DOMAIN frontier.map = {})
    /\ [][closed \subseteq closed']_vars

C19_Witness ==
    /\ alg = "graph"
    /\ pc = "loop"
    /\ Cardinality(closed) >= 2
    /\ frontier.heap # {}
    /\ \E e \in problem.edges : e.from = e.to /\ e.from \in closed
    /\ \E e \in problem.edges :
         e.from \in closed /\ e.to \in closed /\ e.from # e.to

(* C13: tree search ordered by lowest path cost, on a finite graph (cycles
   allowed) with strictly positive step costs and a reachable goal, comes to
   an end and returns a goal node whose parent chain leads back to the
   initial state *)
C13_TreeComplete ==
    (alg = "tree" /\ PositiveCosts /\ GoalReachable) =>
        <>(/\ pc = "done"
           /\ ret # <<>>
           /\ goal_test(ret[1].state)
           /\ WellFormed(ret[1]))

C13_Witness ==
    /\ alg = "tree"
    /\ pc = "done"
    /\ PositiveCosts
    /\ ~Acyclic
    /\ goal_test(ret[1].state)
    /\ Depth(ret[1]) >= 2
    /\ \E i, j \in 1..Len(expansions) : i < j /\ expansions[i] = expansions[j]

(* how often state s was expanded *)
TimesExpanded(s) ==
    Cardinality({i \in 1..Len(expansions) : expansions[i] = s})

(* the number of child nodes the expansions in seq generate *)
RECURSIVE ChildrenGenerated(_)
ChildrenGenerated(seq) ==
    IF seq = <<>> THEN 0
    ELSE Cardinality(actions(Head(seq))) + ChildrenGenerated(Tail(seq))

(* the number of routes (sequences of actions) from the initial state to s,
   on an acyclic problem *)
RECURSIVE Routes(_)
RECURSIVE RoutesInto(_)
RoutesInto(E) ==
    IF E = {} THEN 0
    ELSE LET e == CHOOSE x \in E : TRUE
         IN  Routes(e.from) + RoutesInto(E \ {e})
Routes(s) ==
    IF s = problem.initial THEN 1
    ELSE RoutesInto({e \in problem.edges : e.to = s})

(* the costs of the routes from the initial state to s *)
RECURSIVE RouteCosts(_)
RouteCosts(s) ==
    IF s = problem.initial THEN {0}
    ELSE UNION {{k + e.cost : k \in RouteCosts(e.from)} :
                    e \in {d \in problem.edges : d.to = s}}

(* C15: tree search enqueues every child, so the frontier holds one entry
   per generated node that has not been popped; when no goal is popped it
   expands a state once per route to it, in particular more than once a
   state reached by two routes of different cost, whereas graph search
   expands every state at most once *)
C15_TreeExpandsPerRoute ==
    /\ (alg = "tree" /\ pc # "start") =>
          Cardinality(queue) + Len(expansions) + (IF pc = "done" THEN 1 ELSE 0)
              = 1 + ChildrenGenerated(expansions)
    /\ (alg = "tree" /\ Failed) =>
          \A s \in problem.states :
              /\ TimesExpanded(s) = Routes(s)
              /\ Cardinality(RouteCosts(s)) >= 2 => TimesExpanded(s) >= 2
    /\ alg = "graph" =>
          \A s \in problem.states : TimesExpanded(s) <= 1

C15_Witness ==
    /\ alg = "tree"
    /\ Failed
    /\ \E s \in problem.states :
         /\ Cardinality(RouteCosts(s)) >= 2
         /\ TimesExpanded(s) >= 2
         /\ actions(s) # {}

C15_WitnessFrontier ==
    /\ alg = "tree"
    /\ pc = "loop"
    /\ \E n, m \in queue : n.state = m.state /\ n.path_cost < m.path_cost

C15_WitnessGraph ==
    /\ alg = "graph"
    /\ Failed
    /\ \E s \in problem.states :
         /\ Cardinality(RouteCosts(s)) >= 2
         /\ TimesExpanded(s) = 1

(* C20: graph search comes to an end on every finite problem, whatever the
   step costs (zero and negative cycles included) and whatever the frontier
   ordering: every expansion adds a new state to the closed set, so there
   are at most as many expansions as reachable states *)
C20_GraphTerminates ==
    /\ [](alg = "graph" =>
            /\ Cardinality(closed) = Len(expansions)
            /\ closed \subseteq Reachable
            /\ Len(expansions) <= Cardinality(Reachable))
    /\ <>(pc \in {"done", "goal_not_found"})

C20_Witness ==
    /\ alg = "graph"
    /\ pc \in {"done", "goal_not_found"}
    /\ Len(expansions) = Cardinality(Reachable)
    /\ Len(expansions) >= 2
    /\ \E e \in problem.edges : e.cost < 0 /\ e.from = e.to /\ e.from \in closed
    /\ \E e \in problem.edges : e.from # e.to /\ e.from \in closed /\ e.to \in closed
    /\ hc.result # <<>>
    /\ hc.result # hc.child
====
